---- MODULE Spec2Model ----
(***************************************************************************)
(* A model of bevy_scene's serde module (crates/bevy_scene/src/serde.rs):  *)
(* the serializers SceneSerializer, EntitiesSerializer, EntitySerializer   *)
(* and SceneMapSerializer, and the deserializers SceneDeserializer,        *)
(* SceneEntitiesDeserializer, SceneEntityDeserializer and                  *)
(* SceneMapDeserializer with their visitors.                               *)
(*                                                                         *)
(* A str is a sequence of character codes.  A reflected value is a record  *)
(* [type_path, data, repr]; repr tells a concrete value from the Dynamic*  *)
(* value the reflection deserializer builds.  What a serializer writes is  *)
(* a tree of the serde data model (struct and map nodes); what a visitor   *)
(* reads is such a tree with, at every node, the access (seq or map) the   *)
(* format hands to the visitor.                                            *)
(***************************************************************************)
EXTENDS Integers, Sequences, FiniteSets, TLC

VARIABLES op, value, wire, result

vars == <<op, value, wire, result>>

(***************************************************************************)
(* Bounds of the model.                                                    *)
(***************************************************************************)
\* longest list of entries handed to SceneMapSerializer
MaxEntries == 3
\* longest stream of entries handed to SceneMapDeserializer
MaxWireEntries == 2
\* longest list of entities of a scene, and of a stream of entities
MaxEntities == 2
\* longest list of resources of a scene, and of components of a lone entity
MaxSceneEntries == 2
\* longest stream of fields handed to SceneVisitor
MaxFields == 3
\* longest stream of fields handed to SceneEntityVisitor
MaxEntityFields == 2

(***************************************************************************)
(* Structural names.                                                       *)
(***************************************************************************)
SCENE_STRUCT == "Scene"
SCENE_RESOURCES == "resources"
SCENE_ENTITIES == "entities"
ENTITY_STRUCT == "Entity"
ENTITY_FIELD_COMPONENTS == "components"
\* a field name that neither SceneField nor EntityField knows
OTHER_FIELD == "other"

(***************************************************************************)
(* str: sequences of character codes, ordered as Rust orders str           *)
(* (lexicographically by code, a proper prefix first).                     *)
(***************************************************************************)
Min(a, b) == IF a <= b THEN a ELSE b

StrLess(a, b) ==
    \E i \in 1..(Min(Len(a), Len(b)) + 1) :
        /\ \A j \in 1..(i - 1) : a[j] = b[j]
        /\ \/ i > Len(a) /\ i <= Len(b)
           \/ i <= Len(a) /\ i <= Len(b) /\ a[i] < b[i]

StrLeq(a, b) == a = b \/ StrLess(a, b)

\* The type paths of the fixture: tests::Bar, tests::Baz, tests::Foo, and a
\* path ("Ba") that create_world registers nothing under.
Bar == <<1, 1, 2>>
Baz == <<1, 1, 3>>
Foo == <<2, 4, 4>>
Unregistered == <<1, 1>>

RegisteredPaths == {Bar, Baz, Foo}
TypePaths == RegisteredPaths \cup {Unregistered}

(***************************************************************************)
(* Results.                                                                *)
(***************************************************************************)
NoError == [kind |-> "none", name |-> <<>>]
NoValue == <<>>
Ok(v) == [ok |-> TRUE, value |-> v, err |-> NoError]
Err(e) == [ok |-> FALSE, value |-> NoValue, err |-> e]

UnknownType(name) == [kind |-> "UnknownType", name |-> name]
DuplicateType(name) == [kind |-> "DuplicateType", name |-> name]
MissingField(name) == [kind |-> "MissingField", name |-> name]
DuplicateField(name) == [kind |-> "DuplicateField", name |-> name]
UnknownField(name) == [kind |-> "UnknownField", name |-> name]
ValueDecodeError == [kind |-> "ValueDecodeError", name |-> <<>>]
InvalidType(name) == [kind |-> "InvalidType", name |-> name]

(***************************************************************************)
(* The type registry of the fixture.  A registration holds the type path,  *)
(* the type id and the ReflectFromReflect type data: "some" when           *)
(* from_reflect yields a value, "fails" when it yields None, "none" when   *)
(* the type data is not registered.                                        *)
(***************************************************************************)
TypeIdOf(type_path) ==
    CASE type_path = Bar -> 11
      [] type_path = Baz -> 12
      [] type_path = Foo -> 13
      [] OTHER -> 0

FromReflectOf(type_path) ==
    CASE type_path = Foo -> "some"
      [] type_path = Baz -> "fails"
      [] OTHER -> "none"

Registration(type_path) ==
    [type_path |-> type_path, type_id |-> TypeIdOf(type_path),
     from_reflect |-> FromReflectOf(type_path)]

\* TypeRegistry::get_with_type_path behind TypeRegistrationDeserializer: the
\* registration of the key, or the "no registration found" error.
TypeRegistrationDeserializer(key) ==
    IF key \in RegisteredPaths THEN Ok(Registration(key)) ELSE Err(UnknownType(key))

(***************************************************************************)
(* The value codec of the fixture (tests::qux): a number is written as its *)
(* upper-case hexadecimal digits, most significant first, and read back    *)
(* with from_str_radix.  A digit is a number below Radix; any other code   *)
(* is a character from_str_radix rejects.                                  *)
(***************************************************************************)
Radix == 16

RECURSIVE ToHex(_)
ToHex(n) == IF n < Radix THEN <<n>> ELSE Append(ToHex(n \div Radix), n % Radix)

RECURSIVE HexValue(_)
HexValue(s) == IF s = <<>> THEN 0 ELSE HexValue(SubSeq(s, 1, Len(s) - 1)) * Radix + s[Len(s)]

from_str_radix(s) ==
    IF s = <<>> \/ \E i \in 1..Len(s) : s[i] < 0 \/ s[i] >= Radix
    THEN Err(ValueDecodeError)
    ELSE Ok(HexValue(s))

\* the data of the reflected values of the model
DataValues == {1, 26}
\* the value tokens of the streams of the model: "1", "1A", and "G"
WireValues == {<<1>>, <<1, 10>>, <<16>>}

Reflected(type_path, data, repr) == [type_path |-> type_path, data |-> data, repr |-> repr]

\* TypedReflectSerializer: the value's data through the value codec
TypedReflectSerializer(partial_reflect) == ToHex(partial_reflect.data)

\* TypedReflectDeserializer: a Dynamic* value of the registration's type, or the
\* value codec's error
TypedReflectDeserializer(registration, token) ==
    LET d == from_str_radix(token)
    IN  IF d.ok THEN Ok(Reflected(registration.type_path, d.value, "dynamic")) ELSE d

\* ReflectFromReflect::from_reflect of a registration on a decoded value
from_reflect(registration, v) ==
    IF registration.from_reflect = "some"
    THEN Ok(Reflected(v.type_path, v.data, "concrete"))
    ELSE Err(NoError)

\* PartialReflect::reflect_partial_eq with the represented type compared
ReflectEq(a, b) == a.type_path = b.type_path /\ a.data = b.data

(***************************************************************************)
(* Serializers.  A serializer writes a node of the serde data model:       *)
(* serialize_struct(name, len) with its fields, or serialize_map(Some(len))*)
(* with its entries, in the order of the calls.                            *)
(***************************************************************************)
Entry(k, v) == [key |-> k, value |-> v]

StructNode(name, len, fields) == [node |-> "struct", name |-> name, len |-> len, fields |-> fields]
MapNode(len, entries) == [node |-> "map", len |-> len, entries |-> entries]

\* sort_by_key left out: the entries in the order of the slice
sort_by_key_Unsorted(entries) == entries

\* slice::sort_by_key on the key of a pair: a stable sort
RECURSIVE sort_by_key(_)
sort_by_key(entries) ==
    IF entries = <<>> THEN <<>>
    ELSE LET n == Len(entries)
             x == entries[n]
             sorted == sort_by_key(SubSeq(entries, 1, n - 1))
             k == Cardinality({i \in 1..Len(sorted) : StrLeq(sorted[i].key, x.key)})
         IN  SubSeq(sorted, 1, k) \o <<x>> \o SubSeq(sorted, k + 1, Len(sorted))

\* the sorted type paths written with the values in the order of the slice
SceneMapSerializer_KeysOnly(entries) ==
    LET pairs == [i \in 1..Len(entries) |-> Entry(entries[i].type_path, entries[i])]
        sorted_entries == sort_by_key(pairs)
    IN  MapNode(Len(entries),
                [i \in 1..Len(sorted_entries) |->
                    Entry(sorted_entries[i].key, TypedReflectSerializer(entries[i]))])

\* the entries with the first of each type kept, sorted and written
SceneMapSerializer_Dedup(entries) ==
    LET firsts == SelectSeq([i \in 1..Len(entries) |->
                                IF \E j \in 1..(i - 1) :
                                       entries[j].type_path = entries[i].type_path
                                THEN Entry(<<>>, entries[i])
                                ELSE Entry(entries[i].type_path, entries[i])],
                            LAMBDA p : p.key # <<>>)
        sorted_entries == sort_by_key(firsts)
    IN  MapNode(Len(sorted_entries),
                [i \in 1..Len(sorted_entries) |->
                    Entry(sorted_entries[i].key,
                          TypedReflectSerializer(sorted_entries[i].value))])

SceneMapSerializer(entries) ==
    LET pairs == [i \in 1..Len(entries) |-> Entry(entries[i].type_path, entries[i])]
        sorted_entries == sort_by_key(pairs)
    IN  MapNode(Len(entries),
                [i \in 1..Len(sorted_entries) |->
                    Entry(sorted_entries[i].key,
                          TypedReflectSerializer(sorted_entries[i].value))])

EntitySerializer(entity) ==
    StructNode(ENTITY_STRUCT, 1,
               <<Entry(ENTITY_FIELD_COMPONENTS, SceneMapSerializer(entity.components))>>)

\* the entities sorted by id before they are written
RECURSIVE sort_by_entity(_)
sort_by_entity(entities) ==
    IF entities = <<>> THEN <<>>
    ELSE LET n == Len(entities)
             x == entities[n]
             sorted == sort_by_entity(SubSeq(entities, 1, n - 1))
             k == Cardinality({i \in 1..Len(sorted) : sorted[i].entity <= x.entity})
         IN  SubSeq(sorted, 1, k) \o <<x>> \o SubSeq(sorted, k + 1, Len(sorted))

EntitiesSerializer_Sorted(entities) ==
    MapNode(Len(entities),
            [i \in 1..Len(entities) |->
                Entry(sort_by_entity(entities)[i].entity,
                      EntitySerializer(sort_by_entity(entities)[i]))])

EntitiesSerializer(entities) ==
    MapNode(Len(entities),
            [i \in 1..Len(entities) |->
                Entry(entities[i].entity, EntitySerializer(entities[i]))])

\* the two fields written entities first
SceneSerializer_EntitiesFirst(scene) ==
    StructNode(SCENE_STRUCT, 2,
               <<Entry(SCENE_ENTITIES, EntitiesSerializer(scene.entities)),
                 Entry(SCENE_RESOURCES, SceneMapSerializer(scene.resources))>>)

SceneSerializer(scene) ==
    StructNode(SCENE_STRUCT, 2,
               <<Entry(SCENE_RESOURCES, SceneMapSerializer(scene.resources)),
                 Entry(SCENE_ENTITIES, EntitiesSerializer(scene.entities))>>)

DynamicEntity(entity, components) == [entity |-> entity, components |-> components]
DynamicScene(resources, entities) == [resources |-> resources, entities |-> entities]

(***************************************************************************)
(* What a visitor reads: a stream [access, items], access being the        *)
(* visitor method the format's deserializer calls (visit_map or visit_seq) *)
(* and items the entries [key, value] of the node in stream order.         *)
(***************************************************************************)
Stream(access, items) == [access |-> access, items |-> items]

\* one call of the MapAccess or SeqAccess of a stream, on its i-th entry
Event(call, i) == [call |-> call, at |-> i]

WithLog(r, log) == [ok |-> r.ok, value |-> r.value, err |-> r.err, log |-> log]

(***************************************************************************)
(* SceneMapVisitor.                                                        *)
(***************************************************************************)
\* ReflectDeserializer on one element of a sequence: the element carries its
\* type path, which is resolved before the value is read.
ReflectDeserializer(item) ==
    LET registration == TypeRegistrationDeserializer(item.key)
    IN  IF ~registration.ok THEN registration
        ELSE TypedReflectDeserializer(registration.value, item.value)

\* visit_seq's loop from the i-th element on; entity is the outcome of
\* next_element_seed on the i-th element.
RECURSIVE SceneMapVisitor_visit_seq_loop(_, _, _, _)
RECURSIVE SceneMapVisitor_visit_seq_next(_, _, _, _, _)
SceneMapVisitor_visit_seq_next(items, i, dynamic_properties, log, entity) ==
    IF ~entity.ok THEN WithLog(Err(entity.err), log)
    ELSE SceneMapVisitor_visit_seq_loop(
             items, i + 1, Append(dynamic_properties, entity.value),
             Append(log, Event("push", i)))

SceneMapVisitor_visit_seq_loop(items, i, dynamic_properties, log) ==
    IF i > Len(items) THEN WithLog(Ok(dynamic_properties), log)
    ELSE SceneMapVisitor_visit_seq_next(
             items, i, dynamic_properties, Append(log, Event("next_element_seed", i)),
             ReflectDeserializer(items[i]))

SceneMapVisitor_visit_seq(items) == SceneMapVisitor_visit_seq_loop(items, 1, <<>>, <<>>)

\* visit_map's loop body without the check of added
SceneMapVisitor_visit_map_entry_Unchecked(item, i, added) ==
    LET key == TypeRegistrationDeserializer(item.key)
        log1 == <<Event("next_key_seed", i)>>
        registration == key.value
        raw == TypedReflectDeserializer(registration, item.value)
        log3 == Append(log1, Event("next_value_seed", i))
        type_data == registration.from_reflect # "none"
        converted == from_reflect(registration, raw.value)
        log4 == IF type_data THEN Append(log3, Event("from_reflect", i)) ELSE log3
        v == IF type_data /\ converted.ok THEN converted.value ELSE raw.value
    IN  IF ~key.ok THEN [ok |-> FALSE, err |-> key.err, log |-> log1]
        ELSE IF ~raw.ok THEN [ok |-> FALSE, err |-> raw.err, log |-> log3]
        ELSE [ok |-> TRUE, value |-> v, type_id |-> registration.type_id,
              log |-> Append(log4, Event("push", i))]

\* visit_map's loop body with the ? on the key put off until the value is read
SceneMapVisitor_visit_map_entry_LateKey(item, i, added) ==
    LET key == TypeRegistrationDeserializer(item.key)
        log1 == <<Event("next_key_seed", i)>>
        registration == key.value
        log2 == Append(log1, Event("insert", i))
        raw == TypedReflectDeserializer(registration, item.value)
        log3 == Append(log2, Event("next_value_seed", i))
        type_data == registration.from_reflect # "none"
        converted == from_reflect(registration, raw.value)
        log4 == IF type_data THEN Append(log3, Event("from_reflect", i)) ELSE log3
        v == IF type_data /\ converted.ok THEN converted.value ELSE raw.value
    IN  IF ~key.ok
        THEN [ok |-> FALSE, err |-> key.err,
              log |-> Append(log1, Event("next_value_seed", i))]
        ELSE IF registration.type_id \in added
        THEN [ok |-> FALSE, err |-> DuplicateType(registration.type_path), log |-> log2]
        ELSE IF ~raw.ok THEN [ok |-> FALSE, err |-> raw.err, log |-> log3]
        ELSE [ok |-> TRUE, value |-> v, type_id |-> registration.type_id,
              log |-> Append(log4, Event("push", i))]

\* visit_map's loop body with a from_reflect that yields None returned as an
\* error
SceneMapVisitor_visit_map_entry_StrictHook(item, i, added) ==
    LET key == TypeRegistrationDeserializer(item.key)
        log1 == <<Event("next_key_seed", i)>>
        registration == key.value
        log2 == Append(log1, Event("insert", i))
        raw == TypedReflectDeserializer(registration, item.value)
        log3 == Append(log2, Event("next_value_seed", i))
        type_data == registration.from_reflect # "none"
        converted == from_reflect(registration, raw.value)
        log4 == IF type_data THEN Append(log3, Event("from_reflect", i)) ELSE log3
    IN  IF ~key.ok THEN [ok |-> FALSE, err |-> key.err, log |-> log1]
        ELSE IF registration.type_id \in added
        THEN [ok |-> FALSE, err |-> DuplicateType(registration.type_path), log |-> log2]
        ELSE IF ~raw.ok THEN [ok |-> FALSE, err |-> raw.err, log |-> log3]
        ELSE IF type_data /\ ~converted.ok
        THEN [ok |-> FALSE, err |-> ValueDecodeError, log |-> log4]
        ELSE [ok |-> TRUE, value |-> IF type_data THEN converted.value ELSE raw.value,
              type_id |-> registration.type_id, log |-> Append(log4, Event("push", i))]

\* visit_map's loop body with the value read before the check of added
SceneMapVisitor_visit_map_entry_ValueFirst(item, i, added) ==
    LET key == TypeRegistrationDeserializer(item.key)
        log1 == <<Event("next_key_seed", i)>>
        registration == key.value
        raw == TypedReflectDeserializer(registration, item.value)
        log2 == Append(log1, Event("next_value_seed", i))
        log3 == Append(log2, Event("insert", i))
        type_data == registration.from_reflect # "none"
        converted == from_reflect(registration, raw.value)
        log4 == IF type_data THEN Append(log3, Event("from_reflect", i)) ELSE log3
        v == IF type_data /\ converted.ok THEN converted.value ELSE raw.value
    IN  IF ~key.ok THEN [ok |-> FALSE, err |-> key.err, log |-> log1]
        ELSE IF ~raw.ok THEN [ok |-> FALSE, err |-> raw.err, log |-> log2]
        ELSE IF registration.type_id \in added
        THEN [ok |-> FALSE, err |-> DuplicateType(registration.type_path), log |-> log3]
        ELSE [ok |-> TRUE, value |-> v, type_id |-> registration.type_id,
              log |-> Append(log4, Event("push", i))]

\* The body of visit_map's loop on the i-th entry, given the type ids added so
\* far: the element to push and its type id, or the error to return.
SceneMapVisitor_visit_map_entry(item, i, added) ==
    LET key == TypeRegistrationDeserializer(item.key)
        log1 == <<Event("next_key_seed", i)>>
        registration == key.value
        log2 == Append(log1, Event("insert", i))
        raw == TypedReflectDeserializer(registration, item.value)
        log3 == Append(log2, Event("next_value_seed", i))
        type_data == registration.from_reflect # "none"
        converted == from_reflect(registration, raw.value)
        log4 == IF type_data THEN Append(log3, Event("from_reflect", i)) ELSE log3
        v == IF type_data /\ converted.ok THEN converted.value ELSE raw.value
    IN  IF ~key.ok THEN [ok |-> FALSE, err |-> key.err, log |-> log1]
        ELSE IF registration.type_id \in added
        THEN [ok |-> FALSE, err |-> DuplicateType(registration.type_path), log |-> log2]
        ELSE IF ~raw.ok THEN [ok |-> FALSE, err |-> raw.err, log |-> log3]
        ELSE [ok |-> TRUE, value |-> v, type_id |-> registration.type_id,
              log |-> Append(log4, Event("push", i))]

\* visit_map's loop from the i-th entry on; step is the outcome of the loop's
\* body on the i-th entry.
RECURSIVE SceneMapVisitor_visit_map_loop(_, _, _, _, _)
RECURSIVE SceneMapVisitor_visit_map_next(_, _, _, _, _, _)
\* the element of an entry put in front of the elements pushed before it
SceneMapVisitor_visit_map_next_Reversed(items, i, added, entries, log, step) ==
    IF ~step.ok THEN WithLog(Err(step.err), log \o step.log)
    ELSE SceneMapVisitor_visit_map_loop(
             items, i + 1, added \cup {step.type_id},
             <<step.value>> \o entries, log \o step.log)

SceneMapVisitor_visit_map_next(items, i, added, entries, log, step) ==
    IF ~step.ok THEN WithLog(Err(step.err), log \o step.log)
    ELSE SceneMapVisitor_visit_map_loop(
             items, i + 1, added \cup {step.type_id},
             Append(entries, step.value), log \o step.log)

SceneMapVisitor_visit_map_loop(items, i, added, entries, log) ==
    IF i > Len(items) THEN WithLog(Ok(entries), log)
    ELSE SceneMapVisitor_visit_map_next(
             items, i, added, entries, log,
             SceneMapVisitor_visit_map_entry(items[i], i, added))

\* visit_map with added holding a type id left by the collection read before
SceneMapVisitor_visit_map_Shared(items) ==
    SceneMapVisitor_visit_map_loop(items, 1, {TypeIdOf(Foo)}, <<>>, <<>>)

SceneMapVisitor_visit_map(items) == SceneMapVisitor_visit_map_loop(items, 1, {}, <<>>, <<>>)

\* deserialize_map: the format calls visit_map on a map and visit_seq on a sequence
SceneMapDeserializer(stream) ==
    IF stream.access = "map" THEN SceneMapVisitor_visit_map(stream.items)
    ELSE SceneMapVisitor_visit_seq(stream.items)

(***************************************************************************)
(* SceneEntityVisitor.                                                     *)
(***************************************************************************)
\* an Option
None == [some |-> FALSE, value |-> NoValue]
Some(v) == [some |-> TRUE, value |-> v]

\* #[derive(Deserialize)] #[serde(field_identifier)] enum EntityField
EntityField(key) ==
    IF key = ENTITY_FIELD_COMPONENTS THEN Ok("Components") ELSE Err(UnknownField(key))

\* the ? on the components read, then the DynamicEntity
SceneEntityVisitor_entity(entity, components) ==
    IF ~components.ok THEN Err(components.err)
    ELSE Ok(DynamicEntity(entity, components.value))

SceneEntityVisitor_visit_seq(entity, items) ==
    IF Len(items) = 0 THEN Err(MissingField(ENTITY_FIELD_COMPONENTS))
    ELSE SceneEntityVisitor_entity(entity, SceneMapDeserializer(items[1].value))

\* visit_map's loop without the check of components.is_some()
RECURSIVE SceneEntityVisitor_visit_map_loop_Overwriting(_, _, _, _)
SceneEntityVisitor_visit_map_loop_Overwriting(entity, items, i, components) ==
    IF i > Len(items)
    THEN IF ~components.some THEN Err(MissingField(ENTITY_FIELD_COMPONENTS))
         ELSE Ok(DynamicEntity(entity, components.value))
    ELSE IF ~EntityField(items[i].key).ok THEN Err(EntityField(items[i].key).err)
    ELSE IF ~SceneMapDeserializer(items[i].value).ok
    THEN Err(SceneMapDeserializer(items[i].value).err)
    ELSE SceneEntityVisitor_visit_map_loop_Overwriting(
             entity, items, i + 1, Some(SceneMapDeserializer(items[i].value).value))

\* visit_map's loop from the i-th field on; v is the outcome of next_value_seed
\* on the i-th field.
RECURSIVE SceneEntityVisitor_visit_map_loop(_, _, _, _)
RECURSIVE SceneEntityVisitor_visit_map_next(_, _, _, _)
SceneEntityVisitor_visit_map_next(entity, items, i, v) ==
    IF ~v.ok THEN Err(v.err)
    ELSE SceneEntityVisitor_visit_map_loop(entity, items, i + 1, Some(v.value))

SceneEntityVisitor_visit_map_loop(entity, items, i, components) ==
    IF i > Len(items)
    THEN IF ~components.some THEN Err(MissingField(ENTITY_FIELD_COMPONENTS))
         ELSE Ok(DynamicEntity(entity, components.value))
    ELSE LET key == EntityField(items[i].key)
         IN  IF ~key.ok THEN Err(key.err)
             ELSE IF components.some THEN Err(DuplicateField(ENTITY_FIELD_COMPONENTS))
             ELSE SceneEntityVisitor_visit_map_next(
                      entity, items, i, SceneMapDeserializer(items[i].value))

SceneEntityVisitor_visit_map(entity, items) ==
    SceneEntityVisitor_visit_map_loop(entity, items, 1, None)

\* deserialize_struct: visit_map when the format names the fields, visit_seq
\* when it gives them by position
SceneEntityDeserializer(entity, stream) ==
    IF stream.access = "map" THEN SceneEntityVisitor_visit_map(entity, stream.items)
    ELSE SceneEntityVisitor_visit_seq(entity, stream.items)

(***************************************************************************)
(* SceneEntitiesVisitor.                                                   *)
(***************************************************************************)
\* Deserialize for Entity: the key as it stands in the stream
EntityKey(key) == Ok(key)

\* the entity put in place of the entities read under the same id
RECURSIVE SceneEntitiesVisitor_visit_map_loop_LastWins(_, _, _)
SceneEntitiesVisitor_visit_map_loop_LastWins(items, i, entities) ==
    IF i > Len(items) THEN Ok(entities)
    ELSE IF ~SceneEntityDeserializer(items[i].key, items[i].value).ok
    THEN Err(SceneEntityDeserializer(items[i].key, items[i].value).err)
    ELSE SceneEntitiesVisitor_visit_map_loop_LastWins(
             items, i + 1,
             Append(SelectSeq(entities, LAMBDA e : e.entity # items[i].key),
                    SceneEntityDeserializer(items[i].key, items[i].value).value))

\* visit_map's loop from the i-th entry on; entity is the outcome of
\* next_value_seed on the i-th entry.
RECURSIVE SceneEntitiesVisitor_visit_map_loop(_, _, _)
RECURSIVE SceneEntitiesVisitor_visit_map_next(_, _, _, _)
\* an entity that fails to read left out, and the loop carried on
SceneEntitiesVisitor_visit_map_next_Skipping(items, i, entities, entity) ==
    IF ~entity.ok THEN SceneEntitiesVisitor_visit_map_loop(items, i + 1, entities)
    ELSE SceneEntitiesVisitor_visit_map_loop(items, i + 1, Append(entities, entity.value))

SceneEntitiesVisitor_visit_map_next(items, i, entities, entity) ==
    IF ~entity.ok THEN Err(entity.err)
    ELSE SceneEntitiesVisitor_visit_map_loop(items, i + 1, Append(entities, entity.value))

SceneEntitiesVisitor_visit_map_loop(items, i, entities) ==
    IF i > Len(items) THEN Ok(entities)
    ELSE LET key == EntityKey(items[i].key)
         IN  IF ~key.ok THEN Err(key.err)
             ELSE SceneEntitiesVisitor_visit_map_next(
                      items, i, entities,
                      SceneEntityDeserializer(key.value, items[i].value))

SceneEntitiesVisitor_visit_map(items) == SceneEntitiesVisitor_visit_map_loop(items, 1, <<>>)

\* deserialize_map: SceneEntitiesVisitor has no visit_seq, so a sequence is
\* refused by the Visitor trait's default
SceneEntitiesDeserializer(stream) ==
    IF stream.access = "map" THEN SceneEntitiesVisitor_visit_map(stream.items)
    ELSE Err(InvalidType("map of entities"))

(***************************************************************************)
(* SceneVisitor.                                                           *)
(***************************************************************************)
\* #[derive(Deserialize)] #[serde(field_identifier)] enum SceneField
SceneField(key) ==
    IF key = SCENE_RESOURCES THEN Ok("Resources")
    ELSE IF key = SCENE_ENTITIES THEN Ok("Entities")
    ELSE Err(UnknownField(key))

\* visit_seq after the first element: the ? on resources, then the second element
SceneVisitor_visit_seq_entities(resources, entities) ==
    IF ~entities.ok THEN Err(entities.err)
    ELSE Ok(DynamicScene(resources, entities.value))

SceneVisitor_visit_seq_resources(items, resources) ==
    IF ~resources.ok THEN Err(resources.err)
    ELSE IF Len(items) = 1 THEN Err(MissingField(SCENE_ENTITIES))
    ELSE SceneVisitor_visit_seq_entities(
             resources.value, SceneEntitiesDeserializer(items[2].value))

SceneVisitor_visit_seq(items) ==
    IF Len(items) = 0 THEN Err(MissingField(SCENE_RESOURCES))
    ELSE SceneVisitor_visit_seq_resources(items, SceneMapDeserializer(items[1].value))

\* visit_map's loop without the checks of is_some(): the last value of a field
\* stands
RECURSIVE SceneVisitor_visit_map_loop_Overwriting(_, _, _, _)
SceneVisitor_visit_map_loop_Overwriting(items, i, resources, entities) ==
    IF i > Len(items)
    THEN IF ~resources.some THEN Err(MissingField(SCENE_RESOURCES))
         ELSE IF ~entities.some THEN Err(MissingField(SCENE_ENTITIES))
         ELSE Ok(DynamicScene(resources.value, entities.value))
    ELSE IF ~SceneField(items[i].key).ok THEN Err(SceneField(items[i].key).err)
    ELSE IF items[i].key = SCENE_RESOURCES
    THEN IF ~SceneMapDeserializer(items[i].value).ok
         THEN Err(SceneMapDeserializer(items[i].value).err)
         ELSE SceneVisitor_visit_map_loop_Overwriting(
                  items, i + 1, Some(SceneMapDeserializer(items[i].value).value), entities)
    ELSE IF ~SceneEntitiesDeserializer(items[i].value).ok
         THEN Err(SceneEntitiesDeserializer(items[i].value).err)
         ELSE SceneVisitor_visit_map_loop_Overwriting(
                  items, i + 1, resources, Some(SceneEntitiesDeserializer(items[i].value).value))

\* visit_map's loop from the i-th field on; v is the outcome of next_value_seed
\* on the i-th field, which key names.
RECURSIVE SceneVisitor_visit_map_loop(_, _, _, _)
RECURSIVE SceneVisitor_visit_map_next(_, _, _, _, _, _)
\* the value of a field stored as the other field
SceneVisitor_visit_map_next_Swapped(items, i, resources, entities, key, v) ==
    IF ~v.ok THEN Err(v.err)
    ELSE IF key = "Resources"
    THEN SceneVisitor_visit_map_loop(items, i + 1, resources, Some(v.value))
    ELSE SceneVisitor_visit_map_loop(items, i + 1, Some(v.value), entities)

SceneVisitor_visit_map_next(items, i, resources, entities, key, v) ==
    IF ~v.ok THEN Err(v.err)
    ELSE IF key = "Resources"
    THEN SceneVisitor_visit_map_loop(items, i + 1, Some(v.value), entities)
    ELSE SceneVisitor_visit_map_loop(items, i + 1, resources, Some(v.value))

SceneVisitor_visit_map_loop(items, i, resources, entities) ==
    IF i > Len(items)
    THEN IF ~resources.some THEN Err(MissingField(SCENE_RESOURCES))
         ELSE IF ~entities.some THEN Err(MissingField(SCENE_ENTITIES))
         ELSE Ok(DynamicScene(resources.value, entities.value))
    ELSE LET key == SceneField(items[i].key)
         IN  IF ~key.ok THEN Err(key.err)
             ELSE IF key.value = "Resources"
             THEN IF resources.some THEN Err(DuplicateField(SCENE_RESOURCES))
                  ELSE SceneVisitor_visit_map_next(
                           items, i, resources, entities, key.value,
                           SceneMapDeserializer(items[i].value))
             ELSE IF entities.some THEN Err(DuplicateField(SCENE_ENTITIES))
                  ELSE SceneVisitor_visit_map_next(
                           items, i, resources, entities, key.value,
                           SceneEntitiesDeserializer(items[i].value))

SceneVisitor_visit_map(items) == SceneVisitor_visit_map_loop(items, 1, None, None)

SceneDeserializer(stream) ==
    IF stream.access = "map" THEN SceneVisitor_visit_map(stream.items)
    ELSE SceneVisitor_visit_seq(stream.items)

(***************************************************************************)
(* Formats.  A self-describing format with named struct fields (RON) has   *)
(* deserialize_struct call visit_map; a format that writes a struct as the *)
(* sequence of its fields (postcard, bincode) has it call visit_seq.  Both *)
(* give a map to visit_map.                                                *)
(***************************************************************************)
Formats == {"named", "positional"}

StructAccess(format) == IF format = "named" THEN "map" ELSE "seq"

MapStream(node) == Stream("map", node.entries)

EntityStream(format, node) ==
    Stream(StructAccess(format),
           [i \in 1..Len(node.fields) |->
               Entry(node.fields[i].key, MapStream(node.fields[i].value))])

EntitiesStream(format, node) ==
    Stream("map",
           [i \in 1..Len(node.entries) |->
               Entry(node.entries[i].key, EntityStream(format, node.entries[i].value))])

SceneStream(format, node) ==
    Stream(StructAccess(format),
           <<Entry(node.fields[1].key, MapStream(node.fields[1].value)),
             Entry(node.fields[2].key, EntitiesStream(format, node.fields[2].value))>>)

(***************************************************************************)
(* The inputs of the model.                                                *)
(***************************************************************************)
SeqsUpTo(S, n) == UNION {[1..k -> S] : k \in 0..n}

Accesses == {"map", "seq"}
EntityKeys == {3, 7}

\* values of registered types, as a scene built from a world holds them
Values == {Reflected(t, d, "concrete") : t \in RegisteredPaths, d \in DataValues}
Collections == SeqsUpTo(Values, MaxEntries)

\* collections a scene's entity holds in the model
SampleComponents ==
    {<<>>, <<Reflected(Foo, 26, "concrete"), Reflected(Bar, 1, "concrete")>>}
SampleEntities ==
    SeqsUpTo({DynamicEntity(k, c) : k \in EntityKeys, c \in SampleComponents}, MaxEntities)
Scenes ==
    {DynamicScene(r, e) : r \in SeqsUpTo(Values, MaxSceneEntries), e \in SampleEntities}

\* streams of a collection
MapStreams ==
    {Stream(a, s) : a \in Accesses,
                    s \in SeqsUpTo({Entry(t, w) : t \in TypePaths, w \in WireValues},
                                   MaxWireEntries)}

\* streams of a collection inside the streams of an entity or of a scene
SampleMapStreamAt(n) ==
    CASE n = 1 -> Stream("map", <<>>)
      [] n = 2 -> Stream("map", <<Entry(Foo, <<1>>), Entry(Bar, <<1, 10>>)>>)
      [] n = 3 -> Stream("map", <<Entry(Bar, <<1>>), Entry(Bar, <<1>>)>>)
      [] n = 4 -> Stream("seq", <<Entry(Baz, <<1, 10>>)>>)
      [] OTHER -> Stream("map", <<Entry(Baz, <<1>>), Entry(Foo, <<16>>)>>)

SampleMapStreams == {SampleMapStreamAt(n) : n \in 1..5}

EntityStreams ==
    {Stream(a, s) : a \in Accesses,
                    s \in SeqsUpTo({Entry(f, m) : f \in {ENTITY_FIELD_COMPONENTS, OTHER_FIELD},
                                                  m \in SampleMapStreams},
                                   MaxEntityFields)}

\* streams of an entity inside the streams of the entities or of a scene
SampleEntityStreams ==
    {Stream("map", <<Entry(ENTITY_FIELD_COMPONENTS,
                           Stream("map", <<Entry(Foo, <<1>>), Entry(Bar, <<1, 10>>)>>))>>),
     Stream("seq", <<Entry(ENTITY_FIELD_COMPONENTS, Stream("map", <<Entry(Baz, <<1>>)>>))>>),
     Stream("map", <<>>),
     Stream("map", <<Entry(ENTITY_FIELD_COMPONENTS,
                           Stream("map", <<Entry(Unregistered, <<1>>)>>))>>)}

EntitiesStreams ==
    {Stream(a, s) : a \in Accesses,
                    s \in SeqsUpTo({Entry(k, e) : k \in EntityKeys, e \in SampleEntityStreams},
                                   MaxEntities)}

\* A field of a stream of a scene, by name and by the number of its value
\* among the sample streams of its kind: a stream of a collection under
\* "resources" (and under a name SceneField does not know), a stream of the
\* entities under "entities".
SampleEntitiesStreamAt(n) ==
    CASE n = 1 -> Stream("map", <<>>)
      [] n = 2 ->
           Stream("map",
                  <<Entry(7, Stream("map", <<Entry(ENTITY_FIELD_COMPONENTS,
                                                  Stream("map", <<Entry(Foo, <<1>>)>>))>>)),
                    Entry(3, Stream("seq", <<Entry(ENTITY_FIELD_COMPONENTS,
                                                  Stream("map", <<>>))>>))>>)
      [] n = 3 -> Stream("map", <<Entry(3, Stream("map", <<>>))>>)
      [] OTHER ->
           Stream("map",
                  <<Entry(7, Stream("map", <<Entry(ENTITY_FIELD_COMPONENTS,
                                                  Stream("map", <<Entry(Foo, <<1>>)>>))>>)),
                    Entry(3, Stream("map", <<Entry(ENTITY_FIELD_COMPONENTS,
                                                  Stream("map", <<Entry(Bar, <<1>>),
                                                                  Entry(Bar, <<1>>)>>))>>))>>)

SceneFieldChoices ==
    ({SCENE_RESOURCES} \X (1..5)) \cup ({SCENE_ENTITIES} \X (1..4)) \cup ({OTHER_FIELD} \X {1})

\* The value is of the kind the visitor asks the stream for: by position under
\* visit_seq (resources, then entities), by name under visit_map.
SceneField_of(access, i, choice) ==
    LET entities == IF access = "seq" THEN i = 2 ELSE choice[1] = SCENE_ENTITIES
    IN  Entry(choice[1],
              IF entities THEN SampleEntitiesStreamAt(choice[2])
              ELSE SampleMapStreamAt(choice[2]))

SceneStreamOf(access, choices) ==
    Stream(access, [i \in 1..Len(choices) |-> SceneField_of(access, i, choices[i])])

(***************************************************************************)
(* The state machine: one call of a serializer or of a deserializer, and   *)
(* the deserialization of what SceneSerializer wrote.                      *)
(***************************************************************************)
NoResult == Err(NoError)

Init ==
    /\ op = "start"
    /\ value = NoValue
    /\ wire = NoValue
    /\ result = NoResult

SerializeSceneMap ==
    /\ op = "start"
    /\ \E entries \in Collections :
        /\ value' = entries
        /\ wire' = SceneMapSerializer(entries)
    /\ op' = "SceneMapSerializer"
    /\ UNCHANGED result

SerializeEntity ==
    /\ op = "start"
    /\ \E k \in EntityKeys, c \in SeqsUpTo(Values, MaxSceneEntries) :
        /\ value' = DynamicEntity(k, c)
        /\ wire' = EntitySerializer(DynamicEntity(k, c))
    /\ op' = "EntitySerializer"
    /\ UNCHANGED result

SerializeEntities ==
    /\ op = "start"
    /\ \E entities \in SampleEntities :
        /\ value' = entities
        /\ wire' = EntitiesSerializer(entities)
    /\ op' = "EntitiesSerializer"
    /\ UNCHANGED result

SerializeScene ==
    /\ op = "start"
    /\ \E scene \in Scenes :
        /\ value' = scene
        /\ wire' = SceneSerializer(scene)
    /\ op' = "SceneSerializer"
    /\ UNCHANGED result

\* SceneDeserializer on what SceneSerializer wrote, through a format
DeserializeSerialized ==
    /\ op = "SceneSerializer"
    /\ \E format \in Formats :
        /\ wire' = SceneStream(format, wire)
        /\ result' = SceneDeserializer(SceneStream(format, wire))
    /\ op' = "RoundTrip"
    /\ UNCHANGED value

DeserializeSceneMap ==
    /\ op = "start"
    /\ \E stream \in MapStreams :
        /\ wire' = stream
        /\ result' = SceneMapDeserializer(stream)
    /\ op' = "SceneMapDeserializer"
    /\ UNCHANGED value

DeserializeEntity ==
    /\ op = "start"
    /\ \E entity \in EntityKeys, stream \in EntityStreams :
        /\ value' = entity
        /\ wire' = stream
        /\ result' = SceneEntityDeserializer(entity, stream)
    /\ op' = "SceneEntityDeserializer"

DeserializeEntities ==
    /\ op = "start"
    /\ \E stream \in EntitiesStreams :
        /\ wire' = stream
        /\ result' = SceneEntitiesDeserializer(stream)
    /\ op' = "SceneEntitiesDeserializer"
    /\ UNCHANGED value

DeserializeScene ==
    /\ op = "start"
    /\ \E access \in Accesses, choices \in SeqsUpTo(SceneFieldChoices, MaxFields) :
        /\ wire' = SceneStreamOf(access, choices)
        /\ result' = SceneDeserializer(SceneStreamOf(access, choices))
    /\ op' = "SceneDeserializer"
    /\ UNCHANGED value

Next ==
    \/ SerializeSceneMap
    \/ SerializeEntity
    \/ SerializeEntities
    \/ SerializeScene
    \/ DeserializeSerialized
    \/ DeserializeSceneMap
    \/ DeserializeEntity
    \/ DeserializeEntities
    \/ DeserializeScene

Spec == Init /\ [][Next]_vars

(***************************************************************************)
(* Properties.                                                             *)
(***************************************************************************)
Range(s) == {s[i] : i \in 1..Len(s)}

\* no two values of a collection are of the same type
UniquelyTyped(entries) ==
    \A i, j \in 1..Len(entries) : entries[i].type_path = entries[j].type_path => i = j

\* a collection as a set of (type, value): what assert_scene_eq compares
TypedValues(entries) == {<<v.type_path, v.data>> : v \in Range(entries)}

EntityIds(entities) == {e.entity : e \in Range(entities)}

ComponentsOf(entities, k) ==
    UNION {TypedValues(e.components) : e \in {x \in Range(entities) : x.entity = k}}

SceneUniquelyTyped(scene) ==
    /\ UniquelyTyped(scene.resources)
    /\ \A e \in Range(scene.entities) : UniquelyTyped(e.components)

SceneRegistered(scene) ==
    /\ \A v \in Range(scene.resources) : v.type_path \in RegisteredPaths
    /\ \A e \in Range(scene.entities) :
           \A v \in Range(e.components) : v.type_path \in RegisteredPaths

\* C1: a scene of registered types with no type twice in a collection, written
\* by SceneSerializer and read back by SceneDeserializer through either format,
\* is read without error, with the same set of entity keys, for each key the
\* same set of components (by type and value), and the same set of resources.
C1_RoundTrip ==
    (op = "RoundTrip" /\ SceneRegistered(value) /\ SceneUniquelyTyped(value)) =>
        /\ result.ok
        /\ EntityIds(result.value.entities) = EntityIds(value.entities)
        /\ \A k \in EntityIds(value.entities) :
               ComponentsOf(result.value.entities, k) = ComponentsOf(value.entities, k)
        /\ TypedValues(result.value.resources) = TypedValues(value.resources)

\* a round trip of a scene with two resources held out of order and an entity
\* with components
C1_Witness ==
    /\ op = "RoundTrip"
    /\ SceneUniquelyTyped(value)
    /\ Len(value.resources) = 2
    /\ StrLess(value.resources[2].type_path, value.resources[1].type_path)
    /\ \E e \in Range(value.entities) : Len(e.components) = 2
    /\ result.ok

Sorted(entries) ==
    \A i \in 1..(Len(entries) - 1) : StrLeq(entries[i].key, entries[i + 1].key)

\* the orders a list can be given in
Reorderings(s) ==
    {[i \in 1..Len(s) |-> s[f[i]]] :
        f \in {g \in [1..Len(s) -> 1..Len(s)] : \A i, j \in 1..Len(s) : g[i] = g[j] => i = j}}

\* C2: SceneMapSerializer writes one (type path, value) pair per entry, in
\* ascending order of type path, and the same pairs for the same uniquely typed
\* entries given in any other order.
C2_SortedDeterministic ==
    op = "SceneMapSerializer" =>
        /\ Sorted(wire.entries)
        /\ {<<e.key, e.value>> : e \in Range(wire.entries)}
               = {<<v.type_path, TypedReflectSerializer(v)>> : v \in Range(value)}
        /\ UniquelyTyped(value) =>
               \A other \in Reorderings(value) : SceneMapSerializer(other) = wire

\* three entries of three types given out of order
C2_Witness ==
    /\ op = "SceneMapSerializer"
    /\ Len(value) = 3
    /\ UniquelyTyped(value)
    /\ StrLess(value[3].type_path, value[2].type_path)
    /\ StrLess(value[2].type_path, value[1].type_path)
    /\ Sorted(wire.entries)

\* the i-th entry of a stream of a collection passes visit_map's loop body
GoodEntry(items, i) ==
    /\ items[i].key \in RegisteredPaths
    /\ \A j \in 1..(i - 1) : items[j].key # items[i].key
    /\ from_str_radix(items[i].value).ok

\* visit_map reads the key of the i-th entry
KeyRead(items, i) == \A j \in 1..(i - 1) : GoodEntry(items, j)

RepeatedType(items, i) ==
    /\ items[i].key \in RegisteredPaths
    /\ \E j \in 1..(i - 1) : TypeIdOf(items[j].key) = TypeIdOf(items[i].key)

\* C3: in visit_map, a key that resolves to the type of an earlier key of the
\* collection makes the read fail with the duplicate-type error naming that
\* type, and no collection is returned.
C3_DuplicateTypeError ==
    (op = "SceneMapDeserializer" /\ wire.access = "map") =>
        \A i \in 1..Len(wire.items) :
            (KeyRead(wire.items, i) /\ RepeatedType(wire.items, i)) =>
                /\ ~result.ok
                /\ result.err = DuplicateType(wire.items[i].key)
                /\ result.value = NoValue

\* a map whose second key repeats the first, whose value was read
C3_Witness ==
    /\ op = "SceneMapDeserializer"
    /\ wire.access = "map"
    /\ Len(wire.items) = 2
    /\ GoodEntry(wire.items, 1)
    /\ RepeatedType(wire.items, 2)
    /\ result.err.kind = "DuplicateType"

\* C4: a collection read without error, through visit_map or visit_seq, holds
\* no two elements of the same type.
C4_NoDuplicateInResult ==
    (op = "SceneMapDeserializer" /\ result.ok) => UniquelyTyped(result.value)

\* C5: in visit_map, a key naming a type the registry does not hold makes the
\* read fail with the unknown-type error at the key: the last call on the
\* stream is that key's next_key_seed, the entry's value is not read and no
\* element is pushed for it.
C5_UnknownTypeAtKey ==
    (op = "SceneMapDeserializer" /\ wire.access = "map") =>
        \A i \in 1..Len(wire.items) :
            (KeyRead(wire.items, i) /\ wire.items[i].key \notin RegisteredPaths) =>
                /\ ~result.ok
                /\ result.err = UnknownType(wire.items[i].key)
                /\ result.log # <<>>
                /\ result.log[Len(result.log)] = Event("next_key_seed", i)
                /\ \A n \in 1..Len(result.log) :
                       result.log[n].at = i => result.log[n].call = "next_key_seed"

\* a map whose second key is not registered, after an entry that was pushed
C5_Witness ==
    /\ op = "SceneMapDeserializer"
    /\ wire.access = "map"
    /\ Len(wire.items) = 2
    /\ GoodEntry(wire.items, 1)
    /\ wire.items[2].key \notin RegisteredPaths
    /\ result.err.kind = "UnknownType"
    /\ Event("push", 1) \in Range(result.log)

Occurrences(items, name) == Cardinality({i \in 1..Len(items) : items[i].key = name})

\* the i-th field of a stream of a scene passes SceneVisitor::visit_map's loop body
GoodSceneField(items, i) ==
    /\ items[i].key \in {SCENE_RESOURCES, SCENE_ENTITIES}
    /\ \A j \in 1..(i - 1) : items[j].key # items[i].key
    /\ IF items[i].key = SCENE_RESOURCES THEN SceneMapDeserializer(items[i].value).ok
       ELSE SceneEntitiesDeserializer(items[i].value).ok

\* SceneVisitor::visit_map reads the name of the i-th field (with i past the
\* last field: the scan of the fields is complete)
SceneFieldRead(items, i) == \A j \in 1..(i - 1) : GoodSceneField(items, j)

\* C6: SceneVisitor::visit_map returns a scene only if "resources" and
\* "entities" each occur exactly once; a second occurrence of a field, when
\* read, fails with DuplicateField naming it; after a complete scan a field
\* with no occurrence fails with MissingField naming a field with no
\* occurrence ("resources" before "entities").
C6_ExactlyOnce ==
    (op = "SceneDeserializer" /\ wire.access = "map") =>
        /\ result.ok =>
               /\ Occurrences(wire.items, SCENE_RESOURCES) = 1
               /\ Occurrences(wire.items, SCENE_ENTITIES) = 1
        /\ \A i \in 1..Len(wire.items) :
               (/\ SceneFieldRead(wire.items, i)
                /\ wire.items[i].key \in {SCENE_RESOURCES, SCENE_ENTITIES}
                /\ \E j \in 1..(i - 1) : wire.items[j].key = wire.items[i].key) =>
                   ~result.ok /\ result.err = DuplicateField(wire.items[i].key)
        /\ \A name \in {SCENE_RESOURCES, SCENE_ENTITIES} :
               (/\ SceneFieldRead(wire.items, Len(wire.items) + 1)
                /\ Occurrences(wire.items, name) = 0) =>
                   /\ ~result.ok
                   /\ result.err.kind = "MissingField"
                   /\ Occurrences(wire.items, result.err.name) = 0
                   /\ result.err =
                          MissingField(IF Occurrences(wire.items, SCENE_RESOURCES) = 0
                                       THEN SCENE_RESOURCES ELSE SCENE_ENTITIES)

\* both fields read, then "resources" a second time
C6_Witness ==
    /\ op = "SceneDeserializer"
    /\ wire.access = "map"
    /\ Len(wire.items) = 3
    /\ SceneFieldRead(wire.items, 3)
    /\ wire.items[1].key = SCENE_ENTITIES
    /\ wire.items[3].key = SCENE_RESOURCES
    /\ result.err = DuplicateField(SCENE_RESOURCES)

Positional(r, e) == Stream("seq", <<Entry(SCENE_RESOURCES, r), Entry(SCENE_ENTITIES, e)>>)
Named(r, e) == Stream("map", <<Entry(SCENE_RESOURCES, r), Entry(SCENE_ENTITIES, e)>>)
NamedSwapped(r, e) == Stream("map", <<Entry(SCENE_ENTITIES, e), Entry(SCENE_RESOURCES, r)>>)

\* the outcome of a read: a scene, or no scene
SameScene(a, b) == a.ok = b.ok /\ (a.ok => a.value = b.value)

\* the stream has two fields: positional, or named resources and entities in
\* either order
TwoFields(stream) ==
    /\ Len(stream.items) = 2
    /\ \/ stream.access = "seq"
       \/ <<stream.items[1].key, stream.items[2].key>> = <<SCENE_RESOURCES, SCENE_ENTITIES>>
       \/ <<stream.items[1].key, stream.items[2].key>> = <<SCENE_ENTITIES, SCENE_RESOURCES>>

\* the position of the resources and of the entities among the two fields
ResourcesAt(stream) ==
    IF stream.access = "map" /\ stream.items[1].key = SCENE_ENTITIES THEN 2 ELSE 1

EntitiesAt(stream) == 3 - ResourcesAt(stream)

\* C7: the same resources and entities read by SceneDeserializer as two
\* positional fields, as named fields resources-entities and as named fields
\* entities-resources give the same scene.
C7_PositionalNamedAgree ==
    (op = "SceneDeserializer" /\ TwoFields(wire)) =>
        /\ SameScene(result, SceneDeserializer(Positional(wire.items[ResourcesAt(wire)].value,
                                                          wire.items[EntitiesAt(wire)].value)))
        /\ SameScene(result, SceneDeserializer(Named(wire.items[ResourcesAt(wire)].value,
                                                     wire.items[EntitiesAt(wire)].value)))
        /\ SameScene(result, SceneDeserializer(NamedSwapped(wire.items[ResourcesAt(wire)].value,
                                                            wire.items[EntitiesAt(wire)].value)))

\* named fields, entities first, read into a scene with resources and entities
C7_Witness ==
    /\ op = "SceneDeserializer"
    /\ wire.access = "map"
    /\ TwoFields(wire)
    /\ ResourcesAt(wire) = 2
    /\ result.ok
    /\ Len(result.value.resources) = 2
    /\ Len(result.value.entities) = 2

\* C8: SceneEntityVisitor: named fields with no "components" fail with
\* MissingField("components"), as does a positional input with no element; a
\* second "components", when read, fails with DuplicateField("components");
\* with one occurrence the entity holds the collection read from it, under the
\* id the deserializer was given.
C8_ComponentsOnce ==
    op = "SceneEntityDeserializer" =>
        /\ Len(wire.items) = 0 =>
               ~result.ok /\ result.err = MissingField(ENTITY_FIELD_COMPONENTS)
        /\ (/\ wire.access = "map"
            /\ Len(wire.items) >= 2
            /\ wire.items[1].key = ENTITY_FIELD_COMPONENTS
            /\ wire.items[2].key = ENTITY_FIELD_COMPONENTS
            /\ SceneMapDeserializer(wire.items[1].value).ok) =>
               ~result.ok /\ result.err = DuplicateField(ENTITY_FIELD_COMPONENTS)
        /\ (\/ wire.access = "seq" /\ Len(wire.items) >= 1
            \/ /\ wire.access = "map"
               /\ Len(wire.items) = 1
               /\ wire.items[1].key = ENTITY_FIELD_COMPONENTS) =>
               /\ result.ok = SceneMapDeserializer(wire.items[1].value).ok
               /\ result.ok =>
                      result.value =
                          DynamicEntity(value, SceneMapDeserializer(wire.items[1].value).value)
        /\ (result.ok /\ wire.access = "map") =>
               Occurrences(wire.items, ENTITY_FIELD_COMPONENTS) = 1

\* "components" twice, the first read into a collection
C8_Witness ==
    /\ op = "SceneEntityDeserializer"
    /\ wire.access = "map"
    /\ Len(wire.items) = 2
    /\ wire.items[1].key = ENTITY_FIELD_COMPONENTS
    /\ wire.items[2].key = ENTITY_FIELD_COMPONENTS
    /\ SceneMapDeserializer(wire.items[1].value).ok
    /\ Len(SceneMapDeserializer(wire.items[1].value).value) = 2
    /\ result.err = DuplicateField(ENTITY_FIELD_COMPONENTS)

\* C9: SceneEntitiesVisitor::visit_map on n entries that all read without error
\* returns n entities in stream order, the i-th under the i-th key of the
\* stream and holding what the i-th value reads as; an id met twice is kept
\* twice.
C9_EntitiesInStreamOrder ==
    (/\ op = "SceneEntitiesDeserializer"
     /\ wire.access = "map"
     /\ \A i \in 1..Len(wire.items) :
            SceneEntityDeserializer(wire.items[i].key, wire.items[i].value).ok) =>
        /\ result.ok
        /\ Len(result.value) = Len(wire.items)
        /\ \A i \in 1..Len(wire.items) :
               /\ result.value[i].entity = wire.items[i].key
               /\ result.value[i] =
                      SceneEntityDeserializer(wire.items[i].key, wire.items[i].value).value

\* two entries under one id, with different components, both returned
C9_Witness ==
    /\ op = "SceneEntitiesDeserializer"
    /\ wire.access = "map"
    /\ Len(wire.items) = 2
    /\ wire.items[1].key = wire.items[2].key
    /\ result.ok
    /\ Len(result.value) = 2
    /\ result.value[1].entity = result.value[2].entity
    /\ result.value[1].components # result.value[2].components

\* C10: EntitiesSerializer writes a map of one entry per entity, in the order
\* of the slice whatever the ids, each entry the id and an "Entity" struct of
\* one field "components" whose pairs are in ascending order of type path.
C10_EntitiesInSliceOrder ==
    op = "EntitiesSerializer" =>
        /\ wire.node = "map"
        /\ wire.len = Len(value)
        /\ Len(wire.entries) = Len(value)
        /\ \A i \in 1..Len(value) :
               /\ wire.entries[i].key = value[i].entity
               /\ wire.entries[i].value.node = "struct"
               /\ wire.entries[i].value.name = ENTITY_STRUCT
               /\ Len(wire.entries[i].value.fields) = 1
               /\ wire.entries[i].value.fields[1].key = ENTITY_FIELD_COMPONENTS
               /\ Sorted(wire.entries[i].value.fields[1].value.entries)
               /\ {<<e.key, e.value>> : e \in Range(wire.entries[i].value.fields[1].value.entries)}
                      = {<<v.type_path, TypedReflectSerializer(v)>> :
                             v \in Range(value[i].components)}

\* entities 7 then 3 written as 7 then 3, the components of 3 sorted
C10_Witness ==
    /\ op = "EntitiesSerializer"
    /\ Len(value) = 2
    /\ value[1].entity = 7
    /\ value[2].entity = 3
    /\ Len(value[2].components) = 2
    /\ StrLess(value[2].components[2].type_path, value[2].components[1].type_path)
    /\ wire.entries[1].key = 7
    /\ wire.entries[2].key = 3
    /\ wire.entries[2].value.fields[1].value.entries[1].key = value[2].components[2].type_path

\* the value TypedReflectDeserializer yields for an entry of a stream of a
\* collection
RawValue(item) == TypedReflectDeserializer(Registration(item.key), item.value).value

\* C11: in visit_map, every entry of registered, not repeated type whose
\* value decodes is pushed, whatever its type's ReflectFromReflect: the element
\* pushed is from_reflect's output when the type data is registered and
\* from_reflect yields a value, and the value TypedReflectDeserializer yielded
\* when the type data is not registered or from_reflect yields None.
C11_FromReflectFallback ==
    (op = "SceneMapDeserializer" /\ wire.access = "map") =>
        /\ (\A i \in 1..Len(wire.items) : GoodEntry(wire.items, i)) => result.ok
        /\ result.ok =>
               /\ Len(result.value) = Len(wire.items)
               /\ \A i \in 1..Len(wire.items) :
                      result.value[i] =
                          IF FromReflectOf(wire.items[i].key) = "some"
                          THEN from_reflect(Registration(wire.items[i].key),
                                            RawValue(wire.items[i])).value
                          ELSE RawValue(wire.items[i])

\* a type whose from_reflect yields a value, then one whose from_reflect
\* yields None
C11_Witness ==
    /\ op = "SceneMapDeserializer"
    /\ wire.access = "map"
    /\ Len(wire.items) = 2
    /\ FromReflectOf(wire.items[1].key) = "some"
    /\ FromReflectOf(wire.items[2].key) = "fails"
    /\ result.ok
    /\ result.value[1].repr = "concrete"
    /\ result.value[2] = RawValue(wire.items[2])
    /\ Event("from_reflect", 2) \in Range(result.log)

\* reads that return the same collection, or no collection
SameCollection(a, b) == a.ok = b.ok /\ (a.ok => a.value = b.value)

\* C12: the same typed values in the same order, read through visit_map and
\* through visit_seq, are both accepted or both rejected, and when accepted
\* give the same sequence of elements.
C12_MapSeqAgree ==
    op = "SceneMapDeserializer" =>
        /\ SameCollection(result, SceneMapVisitor_visit_map(wire.items))
        /\ SameCollection(result, SceneMapVisitor_visit_seq(wire.items))

\* the i-th field of a stream of a scene holds the entities: by name under
\* visit_map, by position under visit_seq
IsEntitiesField(stream, i) ==
    IF stream.access = "map" THEN stream.items[i].key = SCENE_ENTITIES ELSE i = 2

\* SceneVisitor reads the value of the i-th field of the stream
FieldValueRead(stream, i) ==
    IF stream.access = "map"
    THEN /\ SceneFieldRead(stream.items, i)
         /\ stream.items[i].key \in {SCENE_RESOURCES, SCENE_ENTITIES}
         /\ \A j \in 1..(i - 1) : stream.items[j].key # stream.items[i].key
    ELSE i = 1 \/ (i = 2 /\ SceneMapDeserializer(stream.items[1].value).ok)

\* SceneEntitiesVisitor reads the j-th entity of the stream
EntityRead(entities, j) ==
    /\ entities.access = "map"
    /\ \A n \in 1..(j - 1) :
           SceneEntityDeserializer(entities.items[n].key, entities.items[n].value).ok

\* SceneEntityVisitor reads the first field of the stream as the components
ComponentsRead(entity) ==
    /\ Len(entity.items) >= 1
    /\ entity.access = "map" => entity.items[1].key = ENTITY_FIELD_COMPONENTS

\* every collection, entity and field of a stream of a scene reads without error
NothingFails(stream) ==
    \A i \in 1..Len(stream.items) :
        (stream.access = "map" \/ i <= 2) =>
            IF IsEntitiesField(stream, i)
            THEN /\ SceneEntitiesDeserializer(stream.items[i].value).ok
                 /\ \A e \in Range(stream.items[i].value.items) :
                        /\ SceneEntityDeserializer(e.key, e.value).ok
                        /\ \A f \in Range(e.value.items) : SceneMapDeserializer(f.value).ok
            ELSE /\ stream.items[i].key # OTHER_FIELD \/ stream.access = "seq"
                 /\ SceneMapDeserializer(stream.items[i].value).ok

\* C13: SceneDeserializer returns either a scene or an error and nothing of a
\* scene.  It returns a scene only if nothing in the stream fails to read; the
\* error of the first read that fails, be it of the resources, of the
\* entities, of an entity or of an entity's components, is the error returned.
C13_AllOrNothing ==
    op = "SceneDeserializer" =>
        /\ result.ok => NothingFails(wire)
        /\ ~result.ok => (result.value = NoValue /\ result.err # NoError)
        /\ \A i \in 1..Len(wire.items) :
               FieldValueRead(wire, i) =>
                   IF ~IsEntitiesField(wire, i)
                   THEN ~SceneMapDeserializer(wire.items[i].value).ok =>
                            result = Err(SceneMapDeserializer(wire.items[i].value).err)
                   ELSE /\ ~SceneEntitiesDeserializer(wire.items[i].value).ok =>
                               result = Err(SceneEntitiesDeserializer(wire.items[i].value).err)
                        /\ \A j \in 1..Len(wire.items[i].value.items) :
                               LET e == wire.items[i].value.items[j]
                               IN  (/\ EntityRead(wire.items[i].value, j)
                                    /\ ~SceneEntityDeserializer(e.key, e.value).ok) =>
                                       /\ result = Err(SceneEntityDeserializer(e.key, e.value).err)
                                       /\ (/\ ComponentsRead(e.value)
                                           /\ ~SceneMapDeserializer(e.value.items[1].value).ok) =>
                                              result =
                                                  Err(SceneMapDeserializer(e.value.items[1].value).err)

\* the resources and a first entity read, then a repeated type in the
\* components of the second entity
C13_Witness ==
    /\ op = "SceneDeserializer"
    /\ wire.access = "map"
    /\ Len(wire.items) = 2
    /\ wire.items[1].key = SCENE_RESOURCES
    /\ wire.items[2].key = SCENE_ENTITIES
    /\ SceneMapDeserializer(wire.items[1].value).ok
    /\ Len(SceneMapDeserializer(wire.items[1].value).value) = 2
    /\ Len(wire.items[2].value.items) = 2
    /\ SceneEntityDeserializer(wire.items[2].value.items[1].key,
                               wire.items[2].value.items[1].value).ok
    /\ result = Err(DuplicateType(Bar))

\* C14: SceneSerializer writes a struct named "Scene" declared with two
\* fields and holding two: "resources" first, with what SceneMapSerializer
\* writes for the resources, then "entities", with what EntitiesSerializer
\* writes for the entities; so for every scene, the empty one included.
C14_SceneTwoFields ==
    op = "SceneSerializer" =>
        /\ wire.node = "struct"
        /\ wire.name = "Scene"
        /\ wire.len = 2
        /\ Len(wire.fields) = 2
        /\ wire.fields[1] = Entry("resources", SceneMapSerializer(value.resources))
        /\ wire.fields[2] = Entry("entities", EntitiesSerializer(value.entities))

\* the scene with no resources and no entities, written with its two fields
C14_Witness ==
    /\ op = "SceneSerializer"
    /\ value = DynamicScene(<<>>, <<>>)
    /\ Len(wire.fields) = 2
    /\ wire.fields[1].key = "resources"
    /\ wire.fields[1].value.entries = <<>>
    /\ wire.fields[2].key = "entities"
    /\ wire.fields[2].value.entries = <<>>

\* the number of entries of a collection that are of the type
CountOfType(entries, type_path) ==
    Cardinality({i \in 1..Len(entries) : entries[i].type_path = type_path})

\* C15: SceneMapSerializer writes a map declared with as many entries as the
\* collection holds and with that many pairs, a type path being the key of as
\* many pairs as the collection holds entries of that type: a type held twice
\* is written twice, and nothing is refused.
C15_EncodeKeepsDuplicates ==
    op = "SceneMapSerializer" =>
        /\ wire.node = "map"
        /\ wire.len = Len(value)
        /\ Len(wire.entries) = Len(value)
        /\ \A t \in TypePaths : Occurrences(wire.entries, t) = CountOfType(value, t)

\* a type held twice with two values, written as two pairs under one key
C15_Witness ==
    /\ op = "SceneMapSerializer"
    /\ Len(value) = 2
    /\ value[1].type_path = value[2].type_path
    /\ value[1].data # value[2].data
    /\ wire.len = 2
    /\ wire.entries[1].key = wire.entries[2].key
    /\ wire.entries[1].value # wire.entries[2].value

\* the place of a call in visit_map's loop body: the key read and resolved,
\* the check of added, the value read, from_reflect, the push
Rank(call) ==
    CASE call = "next_key_seed" -> 1
      [] call = "insert" -> 2
      [] call = "next_value_seed" -> 3
      [] call = "from_reflect" -> 4
      [] call = "push" -> 5
      [] OTHER -> 0

CallsAt(log, i) == {e.call : e \in {x \in Range(log) : x.at = i}}

\* the error visit_map's loop body returns on an entry it does not push
EntryError(items, i) ==
    IF items[i].key \notin RegisteredPaths THEN UnknownType(items[i].key)
    ELSE IF RepeatedType(items, i) THEN DuplicateType(items[i].key)
    ELSE ValueDecodeError

\* C16: visit_map works through the entries in stream order and, within an
\* entry, in the order key read and resolved, check of added, value read,
\* from_reflect, push.  A key of a type already added fails at the check, so
\* its value is not read and the error is the duplicate-type error even when
\* the value would not decode.  The first entry that is not pushed gives the
\* error; no call is made for a later entry.
C16_EntryOrder ==
    (op = "SceneMapDeserializer" /\ wire.access = "map") =>
        /\ \A m, n \in 1..Len(result.log) :
               m < n =>
                   \/ result.log[m].at < result.log[n].at
                   \/ /\ result.log[m].at = result.log[n].at
                      /\ Rank(result.log[m].call) < Rank(result.log[n].call)
        /\ \A i \in 1..Len(wire.items) :
               /\ (KeyRead(wire.items, i) /\ GoodEntry(wire.items, i)) =>
                      {"next_key_seed", "insert", "next_value_seed", "push"}
                          \subseteq CallsAt(result.log, i)
               /\ (KeyRead(wire.items, i) /\ RepeatedType(wire.items, i)) =>
                      /\ CallsAt(result.log, i) = {"next_key_seed", "insert"}
                      /\ result.err = DuplicateType(wire.items[i].key)
               /\ (KeyRead(wire.items, i) /\ ~GoodEntry(wire.items, i)) =>
                      /\ ~result.ok
                      /\ result.err = EntryError(wire.items, i)
                      /\ \A n \in 1..Len(result.log) : result.log[n].at <= i
                      /\ "push" \notin CallsAt(result.log, i)

\* an entry pushed, then its type again with a value that does not decode
C16_Witness ==
    /\ op = "SceneMapDeserializer"
    /\ wire.access = "map"
    /\ Len(wire.items) = 2
    /\ GoodEntry(wire.items, 1)
    /\ wire.items[2].key = wire.items[1].key
    /\ ~from_str_radix(wire.items[2].value).ok
    /\ result.err = DuplicateType(wire.items[2].key)
    /\ result.log[Len(result.log)] = Event("insert", 2)

\* the streams of the collections of a stream of a scene: the resources, and
\* the fields of each entity
CollectionStreamsOf(stream) ==
    UNION {IF IsEntitiesField(stream, i)
           THEN UNION {{f.value : f \in Range(e.value.items)} :
                           e \in Range(stream.items[i].value.items)}
           ELSE {stream.items[i].value} : i \in 1..Len(stream.items)}

TypesOf(entries) == {v.type_path : v \in Range(entries)}

\* C17: added is a local of visit_map, empty at the start of every call.  A
\* scene is refused with the duplicate-type error only for a type that is
\* twice in one collection of the stream; a scene written from collections
\* that are each uniquely typed is read without error, whatever types the
\* resources and the components of the entities have in common.
C17_DuplicateCheckPerCollection ==
    op \in {"SceneDeserializer", "RoundTrip"} =>
        /\ (~result.ok /\ result.err.kind = "DuplicateType") =>
               \E c \in CollectionStreamsOf(wire) :
                   \E i \in 1..Len(c.items) :
                       /\ RepeatedType(c.items, i)
                       /\ c.items[i].key = result.err.name
        /\ (op = "RoundTrip" /\ SceneUniquelyTyped(value)) => result.ok

\* a type held by the resources and by the components of two entities
C17_Witness ==
    /\ op = "RoundTrip"
    /\ result.ok
    /\ Len(result.value.entities) = 2
    /\ Foo \in TypesOf(result.value.resources)
    /\ Foo \in TypesOf(result.value.entities[1].components)
    /\ Foo \in TypesOf(result.value.entities[2].components)
    /\ result.value.entities[1].entity # result.value.entities[2].entity

SortedByType(entries) ==
    \A i \in 1..(Len(entries) - 1) : StrLeq(entries[i].type_path, entries[i + 1].type_path)

\* C18: a collection read without error holds one element per entry of the
\* stream, the i-th of the type and value of the i-th entry.  So a scene of
\* registered types, no type twice in a collection, written and read back
\* holds its resources and each entity's components in ascending order of
\* type path, and written again gives what was written the first time.
C18_StreamOrderKept ==
    /\ (op = "SceneMapDeserializer" /\ result.ok) =>
           /\ Len(result.value) = Len(wire.items)
           /\ \A i \in 1..Len(wire.items) :
                  /\ result.value[i].type_path = wire.items[i].key
                  /\ result.value[i].data = from_str_radix(wire.items[i].value).value
    /\ (op = "RoundTrip" /\ SceneRegistered(value) /\ SceneUniquelyTyped(value)) =>
           /\ result.ok
           /\ SortedByType(result.value.resources)
           /\ \A e \in Range(result.value.entities) : SortedByType(e.components)
           /\ SceneSerializer(result.value) = SceneSerializer(value)

\* a scene holding its resources and an entity's components out of order,
\* read back in order and written again as it was written
C18_Witness ==
    /\ op = "RoundTrip"
    /\ SceneUniquelyTyped(value)
    /\ Len(value.resources) = 2
    /\ ~SortedByType(value.resources)
    /\ \E e \in Range(value.entities) : ~SortedByType(e.components)
    /\ result.ok
    /\ SortedByType(result.value.resources)
    /\ result.value.resources[1].type_path = value.resources[2].type_path
    /\ SceneSerializer(result.value) = SceneSerializer(value)

====
